---------------------------- MODULE Spec2Model ----------------------------
(***************************************************************************)
(* fx-ssg: a static site generator that renders .fx documents into full    *)
(* pages and into a route -> HTML table served by an edge script.          *)
(*                                                                         *)
(* Two build scripts are modelled as they stand in the repository:         *)
(*   - the versioned build      src/index.js, lines 142-262                *)
(*   - the edge-store build     src/unnamed/part_000                       *)
(* together with the image optimizer src/unnamed/part_001, the emitted     *)
(* edge workers, and the document parser. The older build script           *)
(* (src/index.js, lines 1-140) is not modelled.                            *)
(*                                                                         *)
(* Text is a sequence of one-character strings, so that searching,         *)
(* splitting, trimming and the two regular expressions are computed on     *)
(* characters as the JavaScript does.                                      *)
(***************************************************************************)
EXTENDS Integers, Sequences, FiniteSets, TLC

VARIABLES
    pc,               \* position of the running build script
    project,          \* the project tree the build reads (src/...)
    outDir,           \* public/ exists
    edgeDir,          \* edgescript/ exists
    copied,           \* public/assets holds the copied asset tree
    written,          \* public/<name>.html files: name -> html
    derived,          \* derived image files on disk (paths under public/)
    worker,           \* edgescript/worker.js: the serialized table, or NoFile
    i,                \* index of the file the current loop is at
    fragmentPayload,  \* index.js:194
    FX_VERSION,       \* index.js:203
    fragmentStore,    \* index.js:189
    edgeStore,        \* part_000:58
    log,              \* console messages
    fsOps,            \* side effects on the file system performed so far
    layoutCalls,      \* data records handed to layout functions
    hashCalls,        \* number of calls of hash() in this run
    prev,             \* what the previous run of the build produced
    runs,             \* number of runs of the build started
    probe             \* input and result of a function applied on its own

buildVars == <<pc, project, outDir, edgeDir, copied, written, derived, worker, i,
               fragmentPayload, FX_VERSION, fragmentStore, edgeStore, log, fsOps,
               layoutCalls, hashCalls, prev, runs>>

vars == <<pc, project, outDir, edgeDir, copied, written, derived, worker, i,
          fragmentPayload, FX_VERSION, fragmentStore, edgeStore, log, fsOps,
          layoutCalls, hashCalls, prev, runs, probe>>

-----------------------------------------------------------------------------
(* Characters and JavaScript string primitives                              *)

\* \s of the regular expressions and of String.prototype.trim
Ws == {" ", "\n", "\t"}

\* \w of the regular expressions
WordChars ==
    {"a","b","c","d","e","f","g","h","i","j","k","l","m","n","o","p","q","r",
     "s","t","u","v","w","x","y","z","A","B","C","D","E","F","G","H","I","J",
     "K","L","M","N","O","P","Q","R","S","T","U","V","W","X","Y","Z","0","1",
     "2","3","4","5","6","7","8","9","_"}

Digits == <<"0","1","2","3","4","5","6","7","8","9">>

\* `const v = e; ...`: the value e is computed once and named v in F
Bind(e, F(_)) == F(e)

MinOf(S) == CHOOSE x \in S : \A y \in S : x <= y
MaxOf(S) == CHOOSE x \in S : \A y \in S : y <= x

\* the least and the greatest position of a set of positions, 0 if empty
MinOr0(S) == IF S = {} THEN 0 ELSE MinOf(S)
MaxOr0(S) == IF S = {} THEN 0 ELSE MaxOf(S)

\* s.slice(from - 1): the text from position `from` (1-based) to the end
SliceFrom(s, from) == SubSeq(s, from, Len(s))

\* pat occurs in s at position p (1-based)
StartsAt(s, pat, p) ==
    /\ p >= 1
    /\ p + Len(pat) - 1 <= Len(s)
    /\ SubSeq(s, p, p + Len(pat) - 1) = pat

\* s.indexOf(pat, from - 1) + 1: position of the first occurrence at or after
\* `from`, 0 when there is none
IndexOf(s, pat, from) ==
    MinOr0({p \in from..(Len(s) - Len(pat) + 1) : StartsAt(s, pat, p)})

\* s.includes(pat)
Includes(s, pat) == IndexOf(s, pat, 1) # 0

\* s.startsWith(pat), s.endsWith(pat)
StartsWith(s, pat) == StartsAt(s, pat, 1)
EndsWith(s, pat) == StartsAt(s, pat, Len(s) - Len(pat) + 1)

\* s.split(pat) for a non-empty pat
RECURSIVE Split(_, _)
Split(s, pat) ==
    Bind(IndexOf(s, pat, 1), LAMBDA p :
         IF p = 0 THEN <<s>>
         ELSE <<SubSeq(s, 1, p - 1)>> \o Split(SliceFrom(s, p + Len(pat)), pat))

\* s.replace(pat, rep) with a string pattern: the first occurrence only
ReplaceFirst(s, pat, rep) ==
    Bind(IndexOf(s, pat, 1), LAMBDA p :
         IF p = 0 THEN s
         ELSE SubSeq(s, 1, p - 1) \o rep \o SliceFrom(s, p + Len(pat)))

\* s.trim()
Trim(s) ==
    Bind({p \in 1..Len(s) : s[p] \notin Ws}, LAMBDA keep :
         IF keep = {} THEN <<>> ELSE SubSeq(s, MinOf(keep), MaxOf(keep)))

\* parts.join(sep)
RECURSIVE Join(_, _)
Join(parts, sep) ==
    IF Len(parts) = 0 THEN <<>>
    ELSE IF Len(parts) = 1 THEN parts[1]
    ELSE parts[1] \o sep \o Join(Tail(parts), sep)

\* number of characters of class C in s from position p on (a greedy C*)
Run(s, p, C) ==
    Bind({q \in p..Len(s) : s[q] \notin C}, LAMBDA stops :
         IF p > Len(s) THEN 0
         ELSE IF stops = {} THEN Len(s) - p + 1 ELSE MinOf(stops) - p)

\* position of the first character of s at or after p that is in C, 0 if none
FirstIn(s, p, C) == MinOr0({q \in p..Len(s) : s[q] \in C})

-----------------------------------------------------------------------------
(* The document parser                                                      *)

\* the fixed delimiter '------'
Delimiter == <<"-","-","-","-","-","-">>

\* the value of a metadata key that is not set
Undefined == <<"undefined">>

\* One exec() of /<(\w+)>([\s\S]*?)<\/\1>/ anchored at position p: the
\* name, the inner text and the position after the match, or name = <<>>.
TagAt(h, p) ==
    Bind(Run(h, p + 1, WordChars), LAMBDA n :
    Bind(<<"<", "/">> \o SubSeq(h, p + 1, p + n) \o <<">">>, LAMBDA close :
    Bind(IndexOf(h, close, p + n + 2), LAMBDA c :
         IF /\ p <= Len(h) /\ h[p] = "<" /\ n >= 1
            /\ p + n + 1 <= Len(h) /\ h[p + n + 1] = ">"
            /\ c # 0
         THEN [name |-> SubSeq(h, p + 1, p + n),
               value |-> SubSeq(h, p + n + 2, c - 1),
               next |-> c + Len(close)]
         ELSE [name |-> <<>>, value |-> <<>>, next |-> 0])))

\* metadata[k] = v
SetKey(metadata, k, v) ==
    [x \in (DOMAIN metadata) \cup {k} |-> IF x = k THEN v ELSE metadata[x]]

\* The exec() loop: from p, the leftmost match sets metadata[name] to the
\* trimmed inner text and the scan moves on after the match.
RECURSIVE ScanTags(_, _, _)
ScanTags(h, p, metadata) ==
    Bind(MinOr0({q \in p..Len(h) : TagAt(h, q).name # <<>>}), LAMBDA q :
         IF q = 0 THEN metadata
         ELSE Bind(TagAt(h, q), LAMBDA m :
                   ScanTags(h, m.next, SetKey(metadata, m.name, Trim(m.value)))))

EmptyMap == [x \in {} |-> <<>>]

parseMetadata(rawHeader) == ScanTags(rawHeader, 1, EmptyMap)

\* metadata.k, Undefined when the key is not set
Get(metadata, k) == IF k \in DOMAIN metadata THEN metadata[k] ELSE Undefined

\* The split of part_000:73-81 and index.js:221-223,230: header and body
\* of a raw document.
SplitDoc(raw) ==
    Bind(Split(raw, Delimiter), LAMBDA parts :
         IF Includes(raw, Delimiter)
         THEN [hasDelimiter |-> TRUE, head |-> parts[1], body |-> Trim(parts[2])]
         ELSE [hasDelimiter |-> FALSE, head |-> <<>>, body |-> Trim(raw)])

-----------------------------------------------------------------------------
(* The image optimizer (part_001)                                           *)

LtImg   == <<"<","i","m","g">>
SrcEq   == <<"s","r","c","=">>
DataOpt == <<"d","a","t","a","-","o","p","t">>
Quotes  == {"\"", "'"}
Gt      == {">"}

\* The tail of imgRegex from `data-opt` at position d:
\*     data-opt(?:=["']([^"']*)["'])?([^>]*?)>
\* The optional value is tried first (greedy ?), then the match without it.
OptAt(h, d) ==
    Bind(d + Len(DataOpt), LAMBDA a :
    Bind(FirstIn(h, a + 2, Quotes), LAMBDA f :
    Bind(/\ a + 1 <= Len(h) /\ h[a] = "=" /\ h[a + 1] \in Quotes /\ f # 0,
         LAMBDA hasVal :
    Bind(IF hasVal THEN FirstIn(h, f + 1, Gt) ELSE 0, LAMBDA gtV :
    Bind(FirstIn(h, a, Gt), LAMBDA gtN :
         IF hasVal /\ gtV # 0
         THEN [ok |-> TRUE, hasValue |-> TRUE,
               optValue |-> SubSeq(h, a + 2, f - 1),
               after |-> SubSeq(h, f + 1, gtV - 1), end |-> gtV]
         ELSE IF gtN # 0
         THEN [ok |-> TRUE, hasValue |-> FALSE, optValue |-> <<>>,
               after |-> SubSeq(h, a, gtN - 1), end |-> gtN]
         ELSE [ok |-> FALSE, hasValue |-> FALSE, optValue |-> <<>>,
               after |-> <<>>, end |-> 0])))))

\* The middle of imgRegex from `src=` at position t:
\*     src=["']([^"']+)["']([^>]*?)data-opt...
\* e is the quote closing the src value, d the first `data-opt` that the lazy
\* ([^>]*?) reaches without passing a '>'.
SrcAt(h, t) ==
    Bind(FirstIn(h, t + 5, Quotes), LAMBDA e :
    Bind(IF e = 0 THEN 0 ELSE FirstIn(h, e + 1, Gt), LAMBDA g :
    Bind(IF e = 0 THEN 0 ELSE IndexOf(h, DataOpt, e + 1), LAMBDA d :
         [ok |-> /\ StartsAt(h, SrcEq, t)
                 /\ t + 4 <= Len(h) /\ h[t + 4] \in Quotes
                 /\ e > t + 5
                 /\ d # 0 /\ g # 0 /\ d < g
                 /\ OptAt(h, d).ok,
          e |-> e, d |-> d])))

NoMatch == [found |-> FALSE]

\* imgRegex anchored at position p:
\*   <img\s+([^>]*?)src=["']([^"']+)["']([^>]*?)data-opt(?:=["']([^"']*)["'])?([^>]*?)>
MatchImgAt(h, p) ==
    Bind(Run(h, p + 4, Ws), LAMBDA w :
    Bind(p + 4 + w, LAMBDA g1 :
    Bind(FirstIn(h, g1, Gt), LAMBDA gt1 :
    Bind(MinOr0({t \in g1..(gt1 - 1) : SrcAt(h, t).ok}), LAMBDA t :
         IF StartsAt(h, LtImg, p) /\ w >= 1 /\ gt1 # 0 /\ t # 0
         THEN Bind(SrcAt(h, t), LAMBDA s :
              Bind(OptAt(h, s.d), LAMBDA o :
                   [found       |-> TRUE,
                    originalTag |-> SubSeq(h, p, o.end),
                    beforeSrc   |-> SubSeq(h, g1, t - 1),
                    srcPath     |-> SubSeq(h, t + 5, s.e - 1),
                    between     |-> SubSeq(h, s.e + 1, s.d - 1),
                    hasValue    |-> o.hasValue,
                    optValue    |-> o.optValue,
                    after       |-> o.after,
                    end         |-> o.end]))
         ELSE NoMatch))))

\* [...html.matchAll(imgRegex)]: the matches from position p on, in order
RECURSIVE MatchAll(_, _)
MatchAll(h, p) ==
    Bind(MinOr0({q \in p..Len(h) : MatchImgAt(h, q).found}), LAMBDA q :
         IF q = 0 THEN <<>>
         ELSE Bind(MatchImgAt(h, q), LAMBDA m : <<m>> \o MatchAll(h, m.end + 1)))

\* s.replace(/\s+/g, ' ')
CollapseWs(s) ==
    Bind(SelectSeq([p \in 1..Len(s) |-> p],
                   LAMBDA p : s[p] \notin Ws \/ p = 1 \/ s[p - 1] \notin Ws),
         LAMBDA idx :
         [k \in 1..Len(idx) |-> IF s[idx[k]] \in Ws THEN " " ELSE s[idx[k]]])

\* position of the last occurrence of character c in s, 0 if none
LastOf(s, c) == MaxOr0({p \in 1..Len(s) : s[p] = c})

\* path.basename(p), path.extname(p), path.dirname(p) on POSIX paths
Basename(p) == SliceFrom(p, LastOf(p, "/") + 1)
Extname(p) ==
    Bind(Basename(p), LAMBDA b :
    Bind(LastOf(b, "."), LAMBDA k : IF k <= 1 THEN <<>> ELSE SliceFrom(b, k)))
Dirname(p) ==
    Bind(LastOf(p, "/"), LAMBDA k :
         IF k = 0 THEN <<".">> ELSE IF k = 1 THEN <<"/">> ELSE SubSeq(p, 1, k - 1))

\* path.join(dir, name) below a fixed root: '.' names the root itself
PathJoin(dir, name) == IF dir = <<".">> THEN name ELSE dir \o <<"/">> \o name

\* normalizePath: p.split(path.sep).join('/'), with path.sep = '/'
normalizePath(p) == Join(Split(p, <<"/">>), <<"/">>)

DigitSet == {Digits[k] : k \in 1..10}
DigitVal(c) == (CHOOSE k \in 1..10 : Digits[k] = c) - 1

RECURSIVE DigitsValue(_)
DigitsValue(ds) ==
    IF ds = <<>> THEN 0
    ELSE 10 * DigitsValue(SubSeq(ds, 1, Len(ds) - 1)) + DigitVal(ds[Len(ds)])

\* parseInt(s): leading white space, an optional sign, then decimal digits;
\* NaN when no digit follows
ParseInt(s) ==
    Bind(1 + Run(s, 1, Ws), LAMBDA a :
    Bind(IF a <= Len(s) /\ s[a] \in {"-", "+"} THEN a + 1 ELSE a, LAMBDA b :
    Bind(Run(s, b, DigitSet), LAMBDA n :
    Bind(DigitsValue(SubSeq(s, b, b + n - 1)), LAMBDA v :
         IF n = 0 THEN [nan |-> TRUE, n |-> 0]
         ELSE [nan |-> FALSE,
               n |-> IF a <= Len(s) /\ s[a] = "-" THEN 0 - v ELSE v]))))

Num(n) == [nan |-> FALSE, n |-> n]
Null == [null |-> TRUE, nan |-> FALSE, n |-> 0]
NotNull(v) == [null |-> FALSE, nan |-> v.nan, n |-> v.n]

RECURSIVE NatStr(_)
NatStr(n) == IF n < 10 THEN <<Digits[n + 1]>> ELSE NatStr(n \div 10) \o <<Digits[(n % 10) + 1]>>

\* `${v}` of a number
NumStr(v) ==
    IF v.nan THEN <<"N","a","N">>
    ELSE IF v.n < 0 THEN <<"-">> \o NatStr(0 - v.n) ELSE NatStr(v.n)

\* the truth value of size.height
Truthy(height) == ~height.null /\ ~height.nan /\ height.n # 0

DEFAULT_SIZES == <<480, 800, 1200>>

\* part_001:42-49: one token of the marker value
ParseSizeWidthOnly(tok) ==
    Bind(Split(Trim(tok), <<"x">>), LAMBDA parts :
         [width |-> ParseInt(parts[1]), height |-> Null])

ParseSize(tok) ==
    Bind(Split(Trim(tok), <<"x">>), LAMBDA parts :
         [width  |-> ParseInt(parts[1]),
          height |-> IF Len(parts) >= 2 /\ parts[2] # <<>>
                     THEN NotNull(ParseInt(parts[2])) ELSE Null])

\* part_001:38-53: sizesToProcess
SizesToProcess(m) ==
    IF m.hasValue /\ m.optValue # <<>>
    THEN Bind(Split(m.optValue, <<",">>), LAMBDA toks :
              [k \in 1..Len(toks) |-> ParseSize(toks[k])])
    ELSE [k \in 1..Len(DEFAULT_SIZES) |->
            [width |-> Num(DEFAULT_SIZES[k]), height |-> Null]]

WebpExt == <<".","w","e","b","p">>

\* part_001:65-66: the name of the variant's file
OutFileName(fileName, size) ==
    fileName \o <<"-">>
        \o (IF Truthy(size.height)
            THEN NumStr(size.width) \o <<"x">> \o NumStr(size.height)
            ELSE NumStr(size.width))
        \o WebpExt

\* part_001:63-95: one variant task. onDisk holds the derived files that
\* are there when the task asks existsSync(outPath); the file is written
\* only when it is missing, the descriptor is returned either way.
SizeTaskSkipsDescriptor(fileName, dirName, fsDirName, size, onDisk) ==
    Bind(PathJoin(fsDirName, OutFileName(fileName, size)), LAMBDA outPath :
         [outPath    |-> outPath,
          write      |-> outPath \notin onDisk,
          descriptor |-> IF outPath \in onDisk THEN <<>>
                         ELSE dirName \o <<"/">> \o OutFileName(fileName, size)
                              \o <<" ">> \o NumStr(size.width) \o <<"w">>])

SizeTask(fileName, dirName, fsDirName, size, onDisk) ==
    Bind(PathJoin(fsDirName, OutFileName(fileName, size)), LAMBDA outPath :
         [outPath    |-> outPath,
          write      |-> outPath \notin onDisk,
          descriptor |-> dirName \o <<"/">> \o OutFileName(fileName, size)
                         \o <<" ">> \o NumStr(size.width) \o <<"w">>])

\* part_001:99-104: the rewritten element
NewTag(m, srcSetParts) ==
    CollapseWs(LtImg \o <<" ">> \o m.beforeSrc \o <<" ">> \o SrcEq \o <<"\"">>
               \o m.srcPath \o <<"\"", " ", "s","r","c","s","e","t","=","\"">>
               \o Join(srcSetParts, <<",", " ">>) \o <<"\"", " ">>
               \o m.between \o <<" ">> \o m.after \o <<">">>)

\* part_001:29: srcPath without its leading '/'
CleanPath(srcPath) ==
    IF StartsWith(srcPath, <<"/">>) THEN SliceFrom(srcPath, 2) ELSE srcPath

\* part_001:56-58: the file's base name without its extension and '.raw'
FileName(cleanPath) ==
    Bind(Basename(cleanPath), LAMBDA base :
         ReplaceFirst(SubSeq(base, 1, Len(base) - Len(Extname(cleanPath))),
                      <<".","r","a","w">>, <<>>))

\* part_001:25-109: the work on one match. assets is the set of files under
\* src/, onDisk the derived files present when the variant tasks look.
Element(m, assets, onDisk) ==
    Bind(CleanPath(m.srcPath), LAMBDA cleanPath :
    Bind(SizesToProcess(m), LAMBDA sizes :
    Bind([k \in 1..Len(sizes) |->
            SizeTask(FileName(cleanPath), normalizePath(Dirname(m.srcPath)),
                     normalizePath(Dirname(cleanPath)), sizes[k], onDisk)],
         LAMBDA tasks :
         IF cleanPath \notin assets
         THEN [originalTag |-> m.originalTag, newTag |-> m.originalTag,
               rewritten |-> FALSE, sizes |-> <<>>, tasks |-> <<>>]
         ELSE [originalTag |-> m.originalTag,
               newTag      |-> NewTag(m, [k \in 1..Len(tasks) |->
                                            tasks[k].descriptor]),
               rewritten   |-> TRUE,
               sizes       |-> sizes,
               tasks       |-> tasks])))

\* part_001:113-116: each result replaces the first occurrence of its
\* original tag in the markup as the earlier replacements left it
RECURSIVE ReplaceAll(_, _)
ReplaceAll(html, results) ==
    IF results = <<>> THEN html
    ELSE ReplaceAll(ReplaceFirst(html, results[1].originalTag, results[1].newTag),
                    Tail(results))

\* the files the tasks of one element write
WritesOf(result) ==
    {result.tasks[j].outPath :
       j \in {n \in 1..Len(result.tasks) : result.tasks[n].write}}

\* part_001:13-119: processImages(html, cwd) when every write succeeds:
\* the markup returned, the per-element results, the files to be written
processImages(html, assets, onDisk) ==
    Bind(MatchAll(html, 1), LAMBDA matches :
    Bind([k \in 1..Len(matches) |-> Element(matches[k], assets, onDisk)],
         LAMBDA results :
         [html    |-> ReplaceAll(html, results),
          results |-> results,
          writes  |-> UNION {WritesOf(results[k]) : k \in 1..Len(results)}]))

-----------------------------------------------------------------------------
(* Library functions the build scripts call                                 *)

\* html-minifier-terser's minify(html, { collapseWhitespace: true, ... }):
\* of what the library does, the model keeps the collapsing of white space
\* and the trimming of the document's ends.
minify(html) == Trim(CollapseWs(html))

\* every character the model's texts are written in, for character codes
Alphabet ==
    <<"a","b","c","d","e","f","g","h","i","j","k","l","m","n","o","p","q","r",
      "s","t","u","v","w","x","y","z","A","B","C","D","E","F","G","H","I","J",
      "K","L","M","N","O","P","Q","R","S","T","U","V","W","X","Y","Z","0","1",
      "2","3","4","5","6","7","8","9","_"," ","\n","\t","<",">","/","=","\"",
      "'","-",".",",",":","?","#">>

Code(c) == CHOOSE k \in 1..Len(Alphabet) : Alphabet[k] = c

RECURSIVE PowMod(_, _)
PowMod(b, n) == IF n = 0 THEN 1 ELSE (b * PowMod(b, n - 1)) % 256

\* one byte of the digest: a polynomial in the character codes, modulo 256
RECURSIVE Lane(_, _)
Lane(s, b) ==
    IF Len(s) = 0 THEN 0
    ELSE IF Len(s) = 1 THEN Code(s[1]) % 256
    ELSE LET h == Len(s) \div 2
             l == SubSeq(s, 1, h)
             r == SliceFrom(s, h + 1)
         IN  (Lane(l, b) * PowMod(b, Len(r)) + Lane(r, b)) % 256

HexDigits == <<"0","1","2","3","4","5","6","7","8","9","a","b","c","d","e","f">>
HexByte(n) == <<HexDigits[(n \div 16) + 1], HexDigits[(n % 16) + 1]>>

\* index.js:170-171: sha1(s) in hex, cut to its first 8 digits. SHA-1 is a
\* library function; the model keeps that the digest is a function of the
\* text alone and is 8 hexadecimal digits wide (4 bytes).
hash(s) ==
    HexByte(Lane(s, 31)) \o HexByte(Lane(s, 37)) \o HexByte(Lane(s, 41))
        \o HexByte(Lane(s, 43))

-----------------------------------------------------------------------------
(* The project trees the builds are run on                                  *)

DotFx == <<".","f","x">>
AboutFx == <<"a","b","o","u","t",".","f","x">>
IndexFx == <<"i","n","d","e","x",".","f","x">>
NavFx   == <<"n","a","v",".","f","x">>
NotesMd == <<"n","o","t","e","s",".","m","d">>
Base    == <<"b","a","s","e">>
Post    == <<"p","o","s","t">>

\* the one source image, src/i/a.png, and an element that marks it
ImagePath == <<"i","/","a",".","p","n","g">>
MarkedImg ==
    LtImg \o <<" ">> \o SrcEq \o <<"\"","/">> \o ImagePath \o <<"\""," ">>
          \o DataOpt \o <<"=","\"","3","0","\"",">">>

Para == <<"<","p",">","a","<","/","p",">">>

\* texts of fragment files: a paragraph, a marked image, white space only
FragTexts == {<<" ">> \o Para \o <<"\n">>, MarkedImg, <<" ","\n">>}

\* texts of page files: a page naming the layout 'post', a page with a
\* title and a marked image (default layout), a text with no delimiter, a
\* page whose body is white space
PagePost    == <<"<","l","a","y","o","u","t",">">> \o Post
               \o <<"<","/","l","a","y","o","u","t",">","\n">> \o Delimiter
               \o <<"\n">> \o Para
PageImage   == <<"<","t",">","T","<","/","t",">">> \o Delimiter \o MarkedImg
PageNoDelim == Para \o <<"\n">>
PageBlank   == Delimiter \o <<"\n">>
PageTexts == {PagePost, PageImage, PageNoDelim, PageBlank}

\* the number of files a directory listing holds at most
MaxFiles == 2

\* Listings of at most MaxFiles files drawn from `names` (in the order of
\* `names`, as readdirSync lists a directory), each with one of `texts`;
\* a file that is no .fx document holds a text the build never reads.
Listings(names, texts) ==
    LET picks == {S \in SUBSET (1..Len(names)) : Cardinality(S) <= MaxFiles}
        Sorted(S) == SelectSeq([k \in 1..Len(names) |-> k], LAMBDA k : k \in S)
        TextsOf(n) == IF EndsWith(n, DotFx) THEN texts ELSE {<<>>}
    IN  UNION {
          LET idx == Sorted(S)
          IN  {[k \in 1..Len(idx) |-> [name |-> names[idx[k]], text |-> t[k]]] :
                 t \in {u \in [1..Len(idx) -> texts \cup {<<>>}] :
                          \A k \in 1..Len(idx) : u[k] \in TextsOf(names[idx[k]])}}
          : S \in picks}


\* src/assets is missing or there; the source image src/i/a.png is there
\* only in the last tree
AssetTrees == {[assetsDir |-> FALSE, assets |-> {}],
               [assetsDir |-> TRUE,  assets |-> {}],
               [assetsDir |-> TRUE,  assets |-> {ImagePath}]}

NoListing == <<>>

Projects(pageNames, pageTexts, fragNames, fragTexts) ==
    {[pagesDir  |-> pd.dir, pageFiles |-> pd.files,
      fragDir   |-> fd.dir, fragFiles |-> fd.files,
      layouts   |-> ls,
      assetsDir |-> at.assetsDir, assets |-> at.assets] :
        pd \in {[dir |-> TRUE, files |-> l] : l \in Listings(pageNames, pageTexts)}
               \cup {[dir |-> FALSE, files |-> NoListing]},
        fd \in {[dir |-> TRUE, files |-> l] : l \in Listings(fragNames, fragTexts)}
               \cup {[dir |-> FALSE, files |-> NoListing]},
        ls \in {{}, {Base}, {Base, Post}},
        at \in AssetTrees}

-----------------------------------------------------------------------------
(* State shared by the two build scripts                                    *)

NoWorker == [exists |-> FALSE, table |-> EmptyMap]
NoPrev   == [valid |-> FALSE, version |-> <<>>, store |-> EmptyMap]
NoProbe  == [kind |-> "none"]

\* nothing was built yet and no build script has run a statement
FreshState ==
    /\ outDir = FALSE /\ edgeDir = FALSE /\ copied = FALSE
    /\ written = EmptyMap /\ derived = {}
    /\ i = 1
    /\ fragmentPayload = <<>> /\ FX_VERSION = <<>>
    /\ fragmentStore = EmptyMap /\ edgeStore = EmptyMap
    /\ log = {} /\ fsOps = {} /\ layoutCalls = {} /\ hashCalls = 0
    /\ prev = NoPrev /\ runs = 1

\* a fresh process on a project whose outputs were never built
FreshRun ==
    /\ pc = "start"
    /\ FreshState
    /\ worker = NoWorker
    /\ probe = NoProbe

\* no project: a function of the scripts is applied on its own
NoProject ==
    [pagesDir |-> FALSE, pageFiles |-> <<>>, fragDir |-> FALSE, fragFiles |-> <<>>,
     layouts |-> {}, assetsDir |-> FALSE, assets |-> {}]

\* the files of a listing that end in .fx
FxFiles(listing) == SelectSeq(listing, LAMBDA f : EndsWith(f.name, DotFx))

\* f.replace('.fx', '')
Slug(name) == ReplaceFirst(name, DotFx, <<>>)

\* part_000:111-113, index.js:246-249: the page's file under public/
OutName(slug) ==
    IF slug = <<"h","o","m","e">> \/ slug = <<"i","n","d","e","x">>
    THEN <<"i","n","d","e","x",".","h","t","m","l">>
    ELSE slug \o <<".","h","t","m","l">>

\* A layout module src/layouts/<name>.js is user code: a function from the
\* data record to markup. The layouts of the modelled projects wrap the body
\* and contribute one marked image of their own.
LayoutImg ==
    LtImg \o <<" ">> \o SrcEq \o <<"\"","/">> \o ImagePath \o <<"\""," ">>
          \o DataOpt \o <<"=","\"","9","\"",">">>
layoutFn(name, data) ==
    <<"<">> \o name \o <<">">> \o LayoutImg \o Get(data, <<"b","o","d","y">>)

\* The outcomes of `await processImages(html, CWD)`: the call resolves
\* with the rewritten markup and every missing variant written, or one
\* toFile() rejects, the call rejects, and of the other pending writes any
\* may still have landed.
ImageRuns(html, assets, onDisk) ==
    Bind(processImages(html, assets, onDisk), LAMBDA r :
         {[ok |-> TRUE, html |-> r.html, disk |-> onDisk \cup r.writes,
           wrote |-> r.writes # {}]}
         \cup
         {[ok |-> FALSE, html |-> html, disk |-> onDisk \cup landed,
           wrote |-> landed # {}] :
             landed \in (SUBSET r.writes) \ {r.writes}})

ImageOps(run) == IF run.wrote THEN {"writeImage"} ELSE {}

\* the number of times the build is run on the same project
MaxRuns == 2

diskVars   == <<outDir, edgeDir, copied, written, derived, worker>>
memoryVars == <<fragmentPayload, FX_VERSION, fragmentStore, edgeStore, log,
                layoutCalls, hashCalls>>

\* the positions at which a run of a build script has ended: the script ran
\* to its end, process.exit(1), a toFile() of the image optimizer rejected,
\* the import() of a layout module rejected, readdirSync threw
Ended == {"done", "exit1", "toFileRejected", "importRejected", "readdirThrew"}

\* a rejected toFile() rejects Promise.all (part_001:97, 111), so the await
\* of processImages in the build script; nothing catches it and the process
\* ends with the files that landed on disk
Crash(disk, ops) ==
    /\ pc' = "toFileRejected"
    /\ derived' = disk
    /\ fsOps' = fsOps \cup ops

\* index.js:190-192
fragmentFiles == IF project.fragDir THEN FxFiles(project.fragFiles) ELSE <<>>

\* the versioned build is past its second loop over the fragment files
\* (index.js:205-213)
FragmentPhaseDone ==
    /\ hashCalls = 1
    /\ Cardinality(DOMAIN fragmentStore) = Len(fragmentFiles)

\* The user runs the build again once a run has ended: a new process, the
\* same project, the disk as the last run left it.
Rerun ==
    /\ pc \in Ended
    /\ runs < MaxRuns
    /\ runs' = runs + 1
    /\ prev' = IF FragmentPhaseDone
               THEN [valid |-> TRUE, version |-> FX_VERSION, store |-> fragmentStore]
               ELSE prev
    /\ pc' = "start" /\ i' = 1
    /\ fragmentPayload' = <<>> /\ FX_VERSION' = <<>>
    /\ fragmentStore' = EmptyMap /\ edgeStore' = EmptyMap
    /\ log' = {} /\ fsOps' = {} /\ layoutCalls' = {} /\ hashCalls' = 0
    /\ UNCHANGED <<project, probe>>
    /\ UNCHANGED diskVars

-----------------------------------------------------------------------------
(* The versioned build: src/index.js, lines 142-262                         *)

BodyKey      == <<"b","o","d","y">>
LayoutKey    == <<"l","a","y","o","u","t">>
FxVersionKey == <<"f","x","V","e","r","s","i","o","n">>

\* meta.layout || 'base'
LayoutName(meta) ==
    IF Get(meta, LayoutKey) \in {Undefined, <<>>} THEN Base ELSE Get(meta, LayoutKey)

\* index.js:211: the fragment's routeKey
FragKeyUnversioned(version, name) ==
    <<"/","_","_","f","x","/">> \o name

FragKey(version, name) ==
    <<"/","_","_","f","x","/","v">> \o version \o <<"/">> \o name

\* index.js:217, once the directory has been listed
pageFiles == FxFiles(project.pageFiles)

\* index.js:177-185: both output directories are removed and made anew,
\* the asset tree is copied when there is one
BuildStart ==
    /\ pc = "start"
    /\ outDir' = TRUE /\ edgeDir' = TRUE
    /\ written' = EmptyMap /\ derived' = {} /\ worker' = NoWorker
    /\ copied' = project.assetsDir
    /\ fsOps' = fsOps \cup {"rmOut", "rmEdge", "mkOut", "mkEdge"}
                      \cup (IF project.assetsDir THEN {"cpAssets"} ELSE {})
    /\ pc' = "payload" /\ i' = 1
    /\ UNCHANGED <<project, prev, runs, probe>>
    /\ UNCHANGED memoryVars

\* index.js:196-201: one turn of the first loop over the fragment files
FragmentPayloadStep ==
    /\ pc = "payload"
    /\ i <= Len(fragmentFiles)
    /\ \E run \in ImageRuns(Trim(fragmentFiles[i].text), project.assets, derived) :
          IF run.ok
          THEN /\ fragmentPayload' = fragmentPayload \o minify(run.html)
               /\ derived' = run.disk
               /\ fsOps' = fsOps \cup ImageOps(run)
               /\ i' = i + 1
               /\ pc' = pc
          ELSE /\ Crash(run.disk, ImageOps(run))
               /\ UNCHANGED <<fragmentPayload, i>>
    /\ UNCHANGED <<project, outDir, edgeDir, copied, written, worker, FX_VERSION,
                   fragmentStore, edgeStore, log, layoutCalls, hashCalls, prev,
                   runs, probe>>

\* index.js:203: fragmentPayload || "fx", the text the digest is taken of
DigestInput(payload) ==
    IF payload = <<>> THEN <<"f","x">> ELSE payload

\* index.js:203
ComputeVersion ==
    /\ pc = "payload"
    /\ i > Len(fragmentFiles)
    /\ FX_VERSION' = hash(DigestInput(fragmentPayload))
    /\ hashCalls' = hashCalls + 1
    /\ pc' = "store" /\ i' = 1
    /\ UNCHANGED <<project, fragmentPayload, fragmentStore, edgeStore, log, fsOps,
                   layoutCalls, prev, runs, probe>>
    /\ UNCHANGED diskVars

\* index.js:205-213: one turn of the second loop over the fragment files
FragmentStoreStep ==
    /\ pc = "store"
    /\ i <= Len(fragmentFiles)
    /\ \E run \in ImageRuns(Trim(fragmentFiles[i].text), project.assets, derived) :
          IF run.ok
          THEN /\ fragmentStore' =
                     SetKey(fragmentStore,
                            FragKey(FX_VERSION, Slug(fragmentFiles[i].name)),
                            minify(run.html))
               /\ derived' = run.disk
               /\ fsOps' = fsOps \cup ImageOps(run)
               /\ i' = i + 1
               /\ pc' = pc
          ELSE /\ Crash(run.disk, ImageOps(run))
               /\ UNCHANGED <<fragmentStore, i>>
    /\ UNCHANGED <<project, outDir, edgeDir, copied, written, worker,
                   fragmentPayload, FX_VERSION, edgeStore, log, layoutCalls,
                   hashCalls, prev, runs, probe>>

\* index.js:217: readdirSync(PAGES) throws when src/pages is missing
ListPages ==
    /\ pc = "store"
    /\ i > Len(fragmentFiles)
    /\ pc' = IF project.pagesDir THEN "pages" ELSE "readdirThrew"
    /\ i' = 1
    /\ UNCHANGED <<project, fsOps, prev, runs, probe>>
    /\ UNCHANGED diskVars
    /\ UNCHANGED memoryVars

\* index.js:219-253: one page. The dynamic import of a layout module that
\* does not exist rejects, and nothing catches it.
PageStep ==
    /\ pc = "pages"
    /\ i <= Len(pageFiles)
    /\ \E f \in {pageFiles[i]} :
       \E doc \in {SplitDoc(f.text)} :
       \E meta \in {parseMetadata(doc.head)} :
       \E layout \in {LayoutName(meta)} :
       \E run1 \in ImageRuns(doc.body, project.assets, derived) :
         IF ~run1.ok
         THEN /\ Crash(run1.disk, ImageOps(run1))
              /\ UNCHANGED <<written, layoutCalls, i>>
         ELSE IF layout \notin project.layouts
         THEN /\ pc' = "importRejected"
              /\ derived' = run1.disk
              /\ fsOps' = fsOps \cup ImageOps(run1)
              /\ UNCHANGED <<written, layoutCalls, i>>
         ELSE \E run2 \in ImageRuns(
                            layoutFn(layout,
                                     SetKey(SetKey(meta, BodyKey, run1.html),
                                            FxVersionKey, FX_VERSION)),
                            project.assets, run1.disk) :
                /\ layoutCalls' = layoutCalls \cup
                                    {[file |-> f.name, layout |-> layout,
                                      fxVersion |-> FX_VERSION]}
                /\ IF run2.ok
                   THEN /\ written' = SetKey(written, OutName(Slug(f.name)),
                                             minify(run2.html))
                        /\ derived' = run2.disk
                        /\ fsOps' = fsOps \cup ImageOps(run1) \cup ImageOps(run2)
                                          \cup {"writePage"}
                        /\ i' = i + 1
                        /\ pc' = pc
                   ELSE /\ Crash(run2.disk, ImageOps(run1) \cup ImageOps(run2))
                        /\ UNCHANGED <<written, i>>
    /\ UNCHANGED <<project, outDir, edgeDir, copied, worker, fragmentPayload,
                   FX_VERSION, fragmentStore, edgeStore, log, hashCalls, prev,
                   runs, probe>>

\* index.js:257-262: JSON.stringify(fragmentStore) is embedded in the worker
EmitEdgeScript ==
    /\ pc = "pages"
    /\ i > Len(pageFiles)
    /\ worker' = [exists |-> TRUE, table |-> fragmentStore]
    /\ fsOps' = fsOps \cup {"writeWorker"}
    /\ pc' = "done"
    /\ UNCHANGED <<project, outDir, edgeDir, copied, written, derived, i, prev,
                   runs, probe>>
    /\ UNCHANGED memoryVars

\* the fragment directory holds at least one document that marks an image,
\* so that the two loops meet different derived files on disk
VersionedProjects ==
    Projects(<<AboutFx, IndexFx>>, {PagePost, PageNoDelim},
             <<AboutFx, NavFx, NotesMd>>, FragTexts)

InitVersioned ==
    /\ project \in VersionedProjects
    /\ FreshRun

NextVersioned ==
    \/ BuildStart
    \/ FragmentPayloadStep
    \/ ComputeVersion
    \/ FragmentStoreStep
    \/ ListPages
    \/ PageStep
    \/ EmitEdgeScript
    \/ Rerun

SpecVersioned == InitVersioned /\ [][NextVersioned]_vars

-----------------------------------------------------------------------------
(* The edge-store build: src/unnamed/part_000                               *)

\* part_000:68: the page's key in the edge store
PageEdgeKey(slug) ==
    IF slug = <<"h","o","m","e">> \/ slug = <<"i","n","d","e","x">>
    THEN <<"/">> ELSE <<"/">> \o slug

\* part_000:137: the fragment's key in the edge store
FragmentEdgeKey(slug) == <<"/">> \o slug

\* part_000:140: if (edgeStore[edgeKey]), the truth value of a string or of
\* undefined
HasEntry(store, key) == key \in DOMAIN store /\ store[key] # <<>>

\* part_000:42-56: the pre-flight check, then the output directories and
\* the copy of the asset tree. public/ is removed when it is there,
\* edgescript/ is made when it is missing and keeps what it holds.
EdgeStart ==
    /\ pc = "start"
    /\ IF ~project.pagesDir
       THEN /\ pc' = "exit1"
            /\ log' = log \cup {[kind |-> "noPages", file |-> <<>>]}
            /\ UNCHANGED <<outDir, edgeDir, copied, written, derived, fsOps>>
       ELSE /\ pc' = "pages"
            /\ outDir' = TRUE /\ edgeDir' = TRUE
            /\ written' = EmptyMap /\ derived' = {}
            /\ copied' = project.assetsDir
            /\ fsOps' = fsOps \cup {"mkOut"}
                              \cup (IF outDir THEN {"rmOut"} ELSE {})
                              \cup (IF edgeDir THEN {} ELSE {"mkEdge"})
                              \cup (IF project.assetsDir THEN {"cpAssets"} ELSE {})
            /\ log' = log
    /\ i' = 1
    /\ UNCHANGED <<project, worker, fragmentPayload, FX_VERSION, fragmentStore,
                   edgeStore, layoutCalls, hashCalls, prev, runs, probe>>

\* part_000:63-118: one page file
EdgePageStep ==
    /\ pc = "pages"
    /\ i <= Len(pageFiles)
    /\ \E f \in {pageFiles[i]} :
       \E doc \in {SplitDoc(f.text)} :
       \E warned \in {log \cup (IF doc.hasDelimiter THEN {}
                                ELSE {[kind |-> "noSeparator", file |-> f.name]})} :
       \E run1 \in ImageRuns(doc.body, project.assets, derived) :
         IF ~run1.ok
         THEN /\ Crash(run1.disk, ImageOps(run1))
              /\ log' = warned
              /\ UNCHANGED <<edgeStore, written, layoutCalls, i>>
         ELSE
           \E layoutName \in {LayoutName(parseMetadata(doc.head))} :
             /\ edgeStore' = SetKey(edgeStore, PageEdgeKey(Slug(f.name)),
                                    minify(run1.html))
             /\ IF layoutName \notin project.layouts
                THEN /\ log' = warned \cup {[kind |-> "layoutMissing",
                                             file |-> f.name]}
                     /\ derived' = run1.disk
                     /\ fsOps' = fsOps \cup ImageOps(run1)
                     /\ i' = i + 1
                     /\ pc' = pc
                     /\ UNCHANGED <<written, layoutCalls>>
                ELSE
                  \E run2 \in ImageRuns(
                                layoutFn(layoutName,
                                         SetKey(parseMetadata(doc.head), BodyKey,
                                                run1.html)),
                                project.assets, run1.disk) :
                    /\ layoutCalls' = layoutCalls \cup
                                        {[file |-> f.name, layout |-> layoutName,
                                          fxVersion |-> <<>>]}
                    /\ IF run2.ok
                       THEN /\ written' = SetKey(written, OutName(Slug(f.name)),
                                                 minify(run2.html))
                            /\ derived' = run2.disk
                            /\ fsOps' = fsOps \cup ImageOps(run1)
                                          \cup ImageOps(run2) \cup {"writePage"}
                            /\ log' = warned \cup {[kind |-> "page",
                                                    file |-> f.name]}
                            /\ i' = i + 1
                            /\ pc' = pc
                       ELSE /\ Crash(run2.disk, ImageOps(run1) \cup ImageOps(run2))
                            /\ log' = warned
                            /\ UNCHANGED <<written, i>>
    /\ UNCHANGED <<project, outDir, edgeDir, copied, worker, fragmentPayload,
                   FX_VERSION, fragmentStore, hashCalls, prev, runs, probe>>

\* part_000:121-123: the loop over the pages is over, the fragment
\* directory is listed when it exists
EdgeListFragments ==
    /\ pc = "pages"
    /\ i > Len(pageFiles)
    /\ pc' = "fragments" /\ i' = 1
    /\ UNCHANGED <<project, fsOps, log, prev, runs, probe, fragmentPayload,
                   FX_VERSION, fragmentStore, edgeStore, layoutCalls, hashCalls>>
    /\ UNCHANGED diskVars

\* part_000:125-151: one fragment file
EdgeFragmentStep ==
    /\ pc = "fragments"
    /\ i <= Len(fragmentFiles)
    /\ \E f \in {fragmentFiles[i]} :
       \E edgeKey \in {FragmentEdgeKey(Slug(f.name))} :
       \E warned \in {log \cup (IF HasEntry(edgeStore, edgeKey)
                                THEN {[kind |-> "collision", file |-> f.name]}
                                ELSE {})} :
       \E run \in ImageRuns(Trim(f.text), project.assets, derived) :
         IF run.ok
         THEN /\ edgeStore' = SetKey(edgeStore, edgeKey, minify(run.html))
              /\ log' = warned \cup {[kind |-> "fragment", file |-> f.name]}
              /\ derived' = run.disk
              /\ fsOps' = fsOps \cup ImageOps(run)
              /\ i' = i + 1
              /\ pc' = pc
         ELSE /\ Crash(run.disk, ImageOps(run))
              /\ log' = warned
              /\ UNCHANGED <<edgeStore, i>>
    /\ UNCHANGED <<project, outDir, edgeDir, copied, written, worker,
                   fragmentPayload, FX_VERSION, fragmentStore, layoutCalls,
                   hashCalls, prev, runs, probe>>

\* part_000:155-170: JSON.stringify(edgeStore) is embedded in the worker
EdgeEmit ==
    /\ pc = "fragments"
    /\ i > Len(fragmentFiles)
    /\ worker' = [exists |-> TRUE, table |-> edgeStore]
    /\ fsOps' = fsOps \cup {"writeWorker"}
    /\ pc' = "done"
    /\ UNCHANGED <<project, outDir, edgeDir, copied, written, derived, i, prev,
                   runs, probe>>
    /\ UNCHANGED memoryVars

\* pages and fragments share the name about.fx, so that a fragment meets a
\* page's entry in the edge store
EdgeProjects ==
    Projects(<<AboutFx, IndexFx>>, {PagePost, PageNoDelim, PageBlank, PageImage},
             <<AboutFx, NavFx, NotesMd>>, {<<" ">> \o Para \o <<"\n">>, MarkedImg})

InitEdge ==
    /\ project \in EdgeProjects
    /\ FreshRun

NextEdge ==
    \/ EdgeStart
    \/ EdgePageStep
    \/ EdgeListFragments
    \/ EdgeFragmentStep
    \/ EdgeEmit
    \/ Rerun

SpecEdge == InitEdge /\ [][NextEdge]_vars

-----------------------------------------------------------------------------
(* The document parser applied to documents on its own                      *)

TagA      == [name |-> <<"t">>, inner |-> <<"a">>]
TagB      == [name |-> <<"t">>, inner |-> <<" ","b"," ">>]
TagC      == [name |-> <<"u">>, inner |-> <<"c">>]
TagLayout == [name |-> LayoutKey, inner |-> Post]

\* <name>inner</name>
TagText(tag) ==
    <<"<">> \o tag.name \o <<">">> \o tag.inner \o <<"<","/">> \o tag.name
            \o <<">">>

\* the number of tags a header holds at most
MaxTags == 2

\* headers: at most MaxTags well-formed tags, one to a line
TagLists ==
    UNION {[1..n -> {TagA, TagB, TagC, TagLayout}] : n \in 0..MaxTags}

RECURSIVE HeaderText(_)
HeaderText(tags) ==
    IF tags = <<>> THEN <<>>
    ELSE TagText(tags[1]) \o <<"\n">> \o HeaderText(Tail(tags))

\* what follows the first delimiter: a paragraph, a paragraph in white
\* space, nothing, white space, a text that holds the delimiter again
AfterTexts ==
    {Para, <<"\n"," ">> \o Para \o <<"\n">>, <<>>, <<"\n">>,
     <<"\n">> \o Para \o <<"\n">> \o Delimiter \o <<"\n","b">>}

\* index.js:220-230, part_000:73-81,90: the split of one raw document and
\* the metadata read from its header
ParseDocument ==
    /\ pc = "parsing"
    /\ \E tags \in TagLists, after \in AfterTexts :
       \E raw \in {HeaderText(tags) \o Delimiter \o after} :
       \E doc \in {SplitDoc(raw)} :
         probe' = [kind |-> "parse", raw |-> raw, tags |-> tags,
                   doc |-> doc, metadata |-> parseMetadata(doc.head)]
    /\ UNCHANGED buildVars

InitParse ==
    /\ pc = "parsing"
    /\ project = NoProject
    /\ FreshState
    /\ worker = NoWorker
    /\ probe = NoProbe

NextParse == ParseDocument

SpecParse == InitParse /\ [][NextParse]_vars

-----------------------------------------------------------------------------
(* The emitted edge scripts answering requests                              *)

Origin == <<"h","t","t","p","s",":","/","/","h",".","i","o">>
Query  == <<"?","q","=","1">>
Nav    == <<"n","a","v">>
About  == <<"a","b","o","u","t">>

\* new URL(request.url).pathname: from the first '/' after the authority to
\* the query or the fragment identifier
Pathname(url) ==
    Bind(IndexOf(url, <<"/">>, IndexOf(url, <<":","/","/">>, 1) + 3), LAMBDA a :
    Bind(FirstIn(url, a, {"?", "#"}), LAMBDA q :
         IF a = 0 THEN <<"/">>
         ELSE IF q = 0 THEN SliceFrom(url, a) ELSE SubSeq(url, a, q - 1)))

NotServed == [served |-> FALSE, body |-> <<>>]

\* index.js:257: the listener of the versioned build's worker over table P
VersionedHandle(P, u) ==
    Bind(IndexOf(u, <<"/","_","_","f","x","/">>, 9), LAMBDA at :
         IF at # 0 /\ SliceFrom(u, at) \in DOMAIN P
         THEN [served |-> TRUE, body |-> P[SliceFrom(u, at)]]
         ELSE NotServed)

\* part_000:158-166: handleRequest of the edge-store build's worker
EdgeHandle(fragments, u) ==
    IF HasEntry(fragments, Pathname(u))
    THEN [served |-> TRUE, body |-> fragments[Pathname(u)]]
    ELSE NotServed

\* tables the versioned build emits: two fragments, one of them white space
\* only; one fragment; none
VersionedTables ==
    {[k \in {FragKey(hash(Para), Nav), FragKey(hash(Para), About)} |->
        IF k = FragKey(hash(Para), Nav) THEN Para ELSE <<>>],
     [k \in {FragKey(hash(Para), Nav)} |-> Para],
     EmptyMap}

\* tables the edge-store build emits
EdgeTables ==
    {[k \in {<<"/">>, <<"/">> \o About} |-> IF k = <<"/">> THEN Para ELSE <<>>],
     [k \in {<<"/">> \o Nav} |-> Para],
     [k \in {<<"/">> \o Nav, <<"/">> \o About} |-> Para]}

\* request paths about a key: the key, the key with a trailing slash, the
\* key without its last character, the key below another path, the root
PathsAbout(key) ==
    {key, key \o <<"/">>, SubSeq(key, 1, Len(key) - 1), <<"/","x">> \o key,
     <<"/">>}

\* the requests sent to a worker that serves `table`
Requests(table) ==
    {Origin \o path \o query :
       path \in UNION {PathsAbout(key) :
                         key \in DOMAIN table \cup {<<"/">> \o Nav}},
       query \in {<<>>, Query}}

Response(script, table, u, r) ==
    [kind |-> "fetch", script |-> script, table |-> table, url |-> u,
     pathname |-> Pathname(u), served |-> r.served, body |-> r.body]

\* one fetch event at the worker of the versioned build
VersionedFetch ==
    /\ pc = "servingVersioned"
    /\ \E u \in Requests(worker.table) :
         probe' = Response("versioned", worker.table, u,
                           VersionedHandle(worker.table, u))
    /\ UNCHANGED buildVars

\* one fetch event at the worker of the edge-store build
EdgeFetch ==
    /\ pc = "servingEdge"
    /\ \E u \in Requests(worker.table) :
         probe' = Response("edge", worker.table, u, EdgeHandle(worker.table, u))
    /\ UNCHANGED buildVars

InitWorker ==
    /\ project = NoProject
    /\ FreshState
    /\ probe = NoProbe
    /\ \/ /\ pc = "servingVersioned"
          /\ \E t \in VersionedTables : worker = [exists |-> TRUE, table |-> t]
       \/ /\ pc = "servingEdge"
          /\ \E t \in EdgeTables : worker = [exists |-> TRUE, table |-> t]

NextWorker ==
    \/ VersionedFetch
    \/ EdgeFetch

SpecWorker == InitWorker /\ [][NextWorker]_vars

-----------------------------------------------------------------------------
(* The image optimizer applied to markup on its own: pass 1 over a body,    *)
(* pass 2 over the laid-out document that embeds the result                 *)

MissingPath == <<"i","/","b",".","p","n","g">>

AltX       == <<"a","l","t","=","\"","x","\""," ">>
ClassC     == <<" ","c","l","a","s","s","=","\"","c","\""," ">>
TitleT     == <<" ","t","i","t","l","e","=","\"","t","\"">>
AltMarker  == <<" ","a","l","t","=","\"">> \o DataOpt \o <<"\"">>

\* the marker attribute: bare, with one width, with a width and a crop; or
\* no marker
Markers ==
    {DataOpt,
     DataOpt \o <<"=","\"","3","0","\"">>,
     DataOpt \o <<"=","\"","3","0",",","6","0","x","4","0","\"">>,
     <<>>}

\* <img {before}src="/{path}"{between}{marker}{after}>
ImgElement(before, path, between, marker, after) ==
    LtImg \o <<" ">> \o before \o SrcEq \o <<"\"","/">> \o path \o <<"\"">>
          \o between \o marker \o after \o <<">">>

ImgElements ==
    {ImgElement(before, path, between, marker, after) :
       before \in {<<>>, AltX}, path \in {ImagePath, MissingPath},
       between \in {<<" ">>, ClassC}, marker \in Markers,
       after \in {<<>>, TitleT, AltMarker, <<" ">> \o DataOpt}}

\* bodies: one element in a paragraph, alone or followed by a second
\* element that marks the source image
Bodies ==
    {<<"<","p",">">> \o e \o <<"<","/","p",">">> \o more :
       e \in ImgElements, more \in {<<>>, MarkedImg}}

\* part_000:84, index.js:231: processImages over a body (pass 1)
Pass1 ==
    /\ pc = "optimizing"
    /\ probe.kind = "none"
    /\ \E body \in Bodies, assets \in {{ImagePath}, {}} :
         probe' = [kind |-> "pass1", body |-> body, assets |-> assets,
                   r1 |-> processImages(body, assets, {})]
    /\ UNCHANGED buildVars

\* part_000:103-106, index.js:236-242: the layout embeds the pass-1 body,
\* processImages runs over the laid-out document (pass 2)
Pass2 ==
    /\ pc = "optimizing"
    /\ probe.kind = "pass1"
    /\ \E page \in {layoutFn(Base, SetKey(EmptyMap, BodyKey, probe.r1.html))} :
         probe' = [kind |-> "pass2", body |-> probe.body,
                   assets |-> probe.assets, r1 |-> probe.r1, page |-> page,
                   r2 |-> processImages(page, probe.assets, probe.r1.writes)]
    /\ UNCHANGED buildVars

InitImages ==
    /\ pc = "optimizing"
    /\ project = NoProject
    /\ FreshState
    /\ worker = NoWorker
    /\ probe = NoProbe

NextImages ==
    \/ Pass1
    \/ Pass2

SpecImages == InitImages /\ [][NextImages]_vars

-----------------------------------------------------------------------------
(* Properties of the versioned build                                        *)

\* the markup a fragment file yields when no derived image is on disk
FragmentHtml(f) ==
    minify(processImages(Trim(f.text), project.assets, {}).html)

\* the concatenation of the markup of fragment files k, k + 1, ...
RECURSIVE PayloadFrom(_)
PayloadFrom(k) ==
    IF k > Len(fragmentFiles) THEN <<>>
    ELSE FragmentHtml(fragmentFiles[k]) \o PayloadFrom(k + 1)

\* /__fx/v<fingerprint>/
VersionPrefix == <<"/","_","_","f","x","/","v">> \o FX_VERSION \o <<"/">>

\* C1: in the versioned build the fingerprint is computed once, when the
\* markup of every fragment file has been appended to the payload and
\* before a key enters the fragment store or a layout is called; every key
\* of the store, and of the emitted table, is /__fx/v<fingerprint>/<name>
\* for that one fingerprint, which is also the one handed to every layout.
C1_FingerprintOrdering ==
    /\ hashCalls <= 1
    /\ pc \in {"start", "payload"} => hashCalls = 0
    /\ hashCalls = 0 =>
          FX_VERSION = <<>> /\ fragmentStore = EmptyMap /\ layoutCalls = {}
    /\ hashCalls = 1 =>
          /\ fragmentPayload = PayloadFrom(1)
          /\ FX_VERSION = hash(IF fragmentPayload = <<>> THEN <<"f","x">>
                               ELSE fragmentPayload)
          /\ Len(FX_VERSION) = 8
    /\ \A key \in DOMAIN fragmentStore :
          \E k \in 1..Len(fragmentFiles) :
             key = VersionPrefix \o Slug(fragmentFiles[k].name)
    /\ \A call \in layoutCalls : call.fxVersion = FX_VERSION
    /\ pc = "done" =>
          DOMAIN worker.table =
             {VersionPrefix \o Slug(fragmentFiles[k].name) :
                k \in 1..Len(fragmentFiles)}

\* a finished build with two fragments in the table and a layout called
C1_Witness ==
    /\ pc = "done"
    /\ Cardinality(DOMAIN worker.table) = 2
    /\ layoutCalls # {}
    /\ fragmentPayload # <<>>

\* the files of a listing that name a layout the project does not hold
PageLayout(f) == LayoutName(parseMetadata(SplitDoc(f.text).head))

\* C2: a page that names a layout with no render function is skipped and
\* the build goes on: when the run has ended (other than by a failed image
\* write), the edge script is there and exactly the pages whose layout
\* exists have their file under public/.
C2_MissingLayoutSkipped ==
    (pc \in Ended /\ pc # "toFileRejected" /\ project.pagesDir) =>
       /\ worker.exists
       /\ \A k \in 1..Len(pageFiles) :
             (PageLayout(pageFiles[k]) \in project.layouts)
                <=> (OutName(Slug(pageFiles[k].name)) \in DOMAIN written)

\* C3: when src/pages does not exist the build performs no side effect on
\* the file system: nothing removed, made, copied or written.
C3_NoSideEffectWithoutPages ==
    ~project.pagesDir => fsOps = {}

\* C6: the fingerprint and the fragment store that the fragment phase
\* yields are those of the fragment files and the asset tree alone,
\* whichever derived images are on disk when a fragment is processed, and
\* a second run on the same project yields the fingerprint and the store
\* of the first.
C6_FragmentPhaseDeterministic ==
    FragmentPhaseDone =>
       /\ FX_VERSION = hash(IF PayloadFrom(1) = <<>> THEN <<"f","x">>
                            ELSE PayloadFrom(1))
       /\ \A k \in 1..Len(fragmentFiles) :
             /\ FragKey(FX_VERSION, Slug(fragmentFiles[k].name))
                   \in DOMAIN fragmentStore
             /\ fragmentStore[FragKey(FX_VERSION, Slug(fragmentFiles[k].name))]
                   = FragmentHtml(fragmentFiles[k])
       /\ prev.valid =>
             FX_VERSION = prev.version /\ fragmentStore = prev.store

\* a second run has passed the fragment phase with the derived images of
\* the first loop on disk and a rewritten image in the store
C6_Witness ==
    /\ FragmentPhaseDone
    /\ prev.valid
    /\ runs = 2
    /\ derived # {}
    /\ \E key \in DOMAIN fragmentStore :
          Includes(fragmentStore[key], <<"s","r","c","s","e","t">>)

-----------------------------------------------------------------------------
(* Properties of the edge-store build                                       *)

\* C4: when a fragment enters the edge store under a key a page has
\* entered before, whatever markup the page left there, a collision is
\* logged, the build completes, and the emitted table maps the key to the
\* fragment's minified markup.
C4_CollisionLoggedLaterWins ==
    pc = "done" =>
       \A k \in 1..Len(fragmentFiles) :
          LET f   == fragmentFiles[k]
              key == FragmentEdgeKey(Slug(f.name))
          IN  /\ (\E p \in 1..Len(pageFiles) :
                     PageEdgeKey(Slug(pageFiles[p].name)) = key)
                    => [kind |-> "collision", file |-> f.name] \in log
              /\ key \in DOMAIN worker.table
              /\ worker.table[key] = FragmentHtml(f)

\* C8: a page file without the delimiter is handled as a fragment: no
\* layout is called for it and no file is written for it under public/;
\* when the build is done its trimmed text is in the emitted table.
C8_NoDelimiterIsFragment ==
    (pc \in {"pages", "fragments", "done"}) =>
       \A k \in 1..Len(pageFiles) :
          ~Includes(pageFiles[k].text, Delimiter) =>
             /\ \A call \in layoutCalls : call.file # pageFiles[k].name
             /\ OutName(Slug(pageFiles[k].name)) \notin DOMAIN written

\* C9: a failed write of one image variant abandons that variant only:
\* processImages still returns markup and the build goes on, so no run of
\* the build is ended by a rejected write.
C9_WriteFailureAbandonsVariantOnly ==
    pc # "toFileRejected"

-----------------------------------------------------------------------------
(* Properties of the parser, the workers and the image passes               *)

\* the metadata a list of well-formed tags stands for: one entry per tag
\* name, the trimmed inner text of the last tag of that name
ExpectedMetadata(tags) ==
    [n \in {tags[k].name : k \in 1..Len(tags)} |->
       Trim(tags[MaxOf({k \in 1..Len(tags) : tags[k].name = n})].inner)]

\* C7: for a document that holds the delimiter the header is the text
\* before the first delimiter, the body the whole trimmed text after it
\* (also when the delimiter occurs again in it), and the metadata holds one
\* entry per tag name of the header with the trimmed inner text of the last
\* such tag.
C7_ParseDocument ==
    probe.kind = "parse" =>
       LET p == IndexOf(probe.raw, Delimiter, 1)
       IN  /\ probe.doc.hasDelimiter
           /\ probe.doc.head = SubSeq(probe.raw, 1, p - 1)
           /\ probe.doc.body = Trim(SliceFrom(probe.raw, p + Len(Delimiter)))
           /\ probe.metadata = ExpectedMetadata(probe.tags)

\* C5: a worker answers a request from its table if and only if the
\* request path is a key of the table, and then with the stored markup,
\* the empty string included; every other request goes to the origin.
C5_ExactMatchRouting ==
    probe.kind = "fetch" =>
       /\ probe.served <=> probe.pathname \in DOMAIN probe.table
       /\ probe.served => probe.body = probe.table[probe.pathname]

\* C10: pass 2 selects none of the elements pass 1 rewrote and leaves each
\* of them, srcset included, as pass 1 wrote it.
C10_Pass2LeavesRewritten ==
    probe.kind = "pass2" =>
       \A k \in 1..Len(probe.r1.results) :
          probe.r1.results[k].rewritten =>
             /\ \A j \in 1..Len(probe.r2.results) :
                   probe.r2.results[j].originalTag # probe.r1.results[k].newTag
             /\ Includes(probe.r2.html, probe.r1.results[k].newTag)

-----------------------------------------------------------------------------
(* The image optimizer applied to one marked element whose marker value is  *)
(* written from a list of size tokens                                       *)

\* the number of tokens a marker value holds at most
MaxTokens == 2

\* a token 'W' (crop FALSE) or 'WxH' (crop TRUE)
SizeTokens ==
    {[w |-> w, crop |-> FALSE, h |-> 0] : w \in {30, 800}}
    \cup {[w |-> w, crop |-> TRUE, h |-> h] : w \in {30, 800}, h \in {40}}

TokenLists == UNION {[1..n -> SizeTokens] : n \in 0..MaxTokens}

TokenText(tok) ==
    IF tok.crop THEN NatStr(tok.w) \o <<"x">> \o NatStr(tok.h) ELSE NatStr(tok.w)

\* the tokens joined by sep; no tokens: the marker carries no value
RECURSIVE TokensText(_, _)
TokensText(toks, sep) ==
    IF Len(toks) = 0 THEN <<>>
    ELSE IF Len(toks) = 1 THEN TokenText(toks[1])
    ELSE TokenText(toks[1]) \o sep \o TokensText(Tail(toks), sep)

\* data-opt, or data-opt="<tokens>"
MarkerOf(toks, sep) ==
    IF Len(toks) = 0 THEN DataOpt
    ELSE DataOpt \o <<"=","\"">> \o TokensText(toks, sep) \o <<"\"">>

\* part_001:25-109: processImages over one marked element of the source
\* image, with some of its variants on disk already
OptimizeMarked ==
    /\ pc = "sizing"
    /\ probe.kind = "none"
    /\ \E toks \in TokenLists, sep \in {<<",">>, <<","," ">>},
          between \in {<<" ">>, ClassC}, assets \in {{ImagePath}, {}},
          onDisk \in {{}, {<<"i","/","a","-","3","0",".","w","e","b","p">>}} :
         probe' = [kind |-> "sizes", tokens |-> toks, assets |-> assets,
                   onDisk |-> onDisk,
                   r |-> processImages(
                           ImgElement(<<>>, ImagePath, between,
                                      MarkerOf(toks, sep), <<>>),
                           assets, onDisk)]
    /\ UNCHANGED buildVars

InitSizes ==
    /\ pc = "sizing"
    /\ project = NoProject
    /\ FreshState
    /\ worker = NoWorker
    /\ probe = NoProbe

NextSizes == OptimizeMarked

SpecSizes == InitSizes /\ [][NextSizes]_vars

\* the variants a token list stands for: the tokens, or the default widths
ExpectedVariants(toks) ==
    IF Len(toks) = 0
    THEN <<[w |-> 480, crop |-> FALSE, h |-> 0],
           [w |-> 800, crop |-> FALSE, h |-> 0],
           [w |-> 1200, crop |-> FALSE, h |-> 0]>>
    ELSE toks

\* '/i/a-<width>.webp <width>w' or '/i/a-<width>x<height>.webp <width>w'
ExpectedDescriptor(v) ==
    <<"/","i","/","a","-">> \o TokenText(v) \o <<".","w","e","b","p"," ">>
        \o NatStr(v.w) \o <<"w">>

\* C11: for a marked image whose source file exists the variants are the
\* tokens of the marker value, in order, 'W' as a width without height and
\* 'WxH' as a width and a height, or the default widths 480, 800, 1200
\* when the marker carries no value; the srcset of the rewritten element
\* holds one descriptor '<url> <width>w' per variant, in that order, whose
\* file name ends in -<width> or -<width>x<height>.
C11_VariantsAndSrcset ==
    (probe.kind = "sizes" /\ probe.assets = {ImagePath}) =>
       LET e  == probe.r.results[1]
           vs == ExpectedVariants(probe.tokens)
       IN  /\ Len(probe.r.results) = 1
           /\ e.rewritten
           /\ Len(e.sizes) = Len(vs)
           /\ \A k \in 1..Len(vs) :
                 /\ ~e.sizes[k].width.nan
                 /\ e.sizes[k].width.n = vs[k].w
                 /\ e.sizes[k].height.null = ~vs[k].crop
                 /\ vs[k].crop =>
                       ~e.sizes[k].height.nan /\ e.sizes[k].height.n = vs[k].h
           /\ Len(e.tasks) = Len(vs)
           /\ \A k \in 1..Len(vs) :
                 e.tasks[k].descriptor = ExpectedDescriptor(vs[k])
           /\ Includes(e.newTag,
                       <<"s","r","c","s","e","t","=","\"">>
                          \o Join([k \in 1..Len(vs) |-> ExpectedDescriptor(vs[k])],
                                  <<",", " ">>)
                          \o <<"\"">>)
           /\ IndexOf(e.newTag, <<"s","r","c","s","e","t">>,
                      IndexOf(e.newTag, <<"s","r","c","s","e","t">>, 1) + 1) = 0

\* two tokens, a width and a crop, on an image that is there
C11_Witness ==
    /\ probe.kind = "sizes"
    /\ probe.assets = {ImagePath}
    /\ Len(probe.tokens) = 2
    /\ ~probe.tokens[1].crop /\ probe.tokens[2].crop
    /\ probe.r.results[1].rewritten

\* the bare marker on an image that is there
C11_WitnessDefault ==
    /\ probe.kind = "sizes"
    /\ probe.assets = {ImagePath}
    /\ Len(probe.tokens) = 0
    /\ probe.r.results[1].rewritten

-----------------------------------------------------------------------------
(* The fragment phase of the versioned build over two fragment directories  *)
(* that differ in the text of one file                                      *)

Fx == <<"f","x">>

\* texts of fragment files: white space only, the text fx, a paragraph, one
\* letter
DigestTexts == {<<" ","\n">>, Fx, <<" ">> \o Para, <<"f">>, <<"x">>}

\* listings of src/fragments, .fx files only
DigestListings ==
    {l \in Listings(<<AboutFx, NavFx>>, DigestTexts) : Len(l) > 0}

\* index.js:197-199: the html of one fragment file
FragmentHtmlOf(file, assets, disk) ==
    Bind(processImages(Trim(file.text), assets, disk), LAMBDA r :
         [html |-> minify(r.html), disk |-> disk \cup r.writes])

\* index.js:194-201: the first loop, from file k on
RECURSIVE PayloadLoop(_, _, _, _)
PayloadLoop(files, k, assets, disk) ==
    IF k > Len(files) THEN <<>>
    ELSE Bind(FragmentHtmlOf(files[k], assets, disk), LAMBDA f :
              f.html \o PayloadLoop(files, k + 1, assets, f.disk))

\* index.js:188-213: the fragment phase of one build
FragmentPhase(files) ==
    Bind(PayloadLoop(files, 1, {}, {}), LAMBDA payload :
         [files    |-> files,
          payloads |-> [k \in 1..Len(files) |->
                          FragmentHtmlOf(files[k], {}, {}).html],
          payload  |-> payload,
          input    |-> DigestInput(payload),
          version  |-> hash(DigestInput(payload)),
          keys     |-> {FragKey(hash(DigestInput(payload)), Slug(files[k].name)) :
                          k \in 1..Len(files)}])

\* a build of a fragment directory
BuildFragments ==
    /\ pc = "digesting"
    /\ probe.kind = "none"
    /\ \E files \in DigestListings :
         probe' = [kind |-> "built", a |-> FragmentPhase(files)]
    /\ UNCHANGED buildVars

\* a build after the text of one fragment file changed
RebuildChanged ==
    /\ pc = "digesting"
    /\ probe.kind = "built"
    /\ \E k \in 1..Len(probe.a.files), t \in DigestTexts :
         /\ t # probe.a.files[k].text
         /\ probe' = [kind |-> "rebuilt", a |-> probe.a, changed |-> k,
                      b |-> FragmentPhase(
                              [probe.a.files EXCEPT ![k].text = t])]
    /\ UNCHANGED buildVars

InitDigest ==
    /\ pc = "digesting"
    /\ project = NoProject
    /\ FreshState
    /\ worker = NoWorker
    /\ probe = NoProbe

NextDigest == BuildFragments \/ RebuildChanged

SpecDigest == InitDigest /\ [][NextDigest]_vars

\* C12: a change of the minified payload of one fragment, the other
\* fragments and the listing order unchanged, changes the text the
\* fingerprint digest is taken of; two builds whose fragment payload
\* concatenations differ never take the digest of the same text.
C12_PayloadChangeChangesDigestInput ==
    (/\ probe.kind = "rebuilt"
     /\ probe.a.payloads[probe.changed] # probe.b.payloads[probe.changed])
       => /\ probe.a.payload # probe.b.payload
          /\ probe.a.input # probe.b.input

\* the part of C12 the code keeps: the concatenations differ
C12_ConcatenationChanges ==
    (/\ probe.kind = "rebuilt"
     /\ probe.a.payloads[probe.changed] # probe.b.payloads[probe.changed])
       => probe.a.payload # probe.b.payload

\* the payload of one fragment changed, the digest input, the version and
\* the keys did not
C12_SameVersion ==
    ~(/\ probe.kind = "rebuilt"
      /\ probe.a.payload # probe.b.payload
      /\ probe.a.input = probe.b.input
      /\ probe.a.version = probe.b.version
      /\ probe.a.keys = probe.b.keys)

-----------------------------------------------------------------------------
(* One processImages call as the event loop runs it: every variant task of  *)
(* every matched element is started before the first of them resumes        *)

Variant30 == <<"i","/","a","-","3","0",".","w","e","b","p">>

\* one or two elements of the source image
TaskBodies ==
    LET es == {ImgElement(<<>>, ImagePath, between, MarkerOf(toks, <<",">>), <<>>) :
                 between \in {<<" ">>, ClassC},
                 toks \in {t \in TokenLists :
                             /\ Len(t) > 0
                             /\ \A k \in 1..Len(t) : t[k].w = 30}}
    IN  es \cup {e1 \o e2 : e1 \in es, e2 \in es}

\* part_001:25, 63: the variant tasks of all elements, in the order map()
\* starts them, each at its await of mkdir
RECURSIVE TasksOf(_)
TasksOf(results) ==
    IF results = <<>> THEN <<>>
    ELSE [k \in 1..Len(results[1].tasks) |->
            [outPath |-> results[1].tasks[k].outPath, at |-> "mkdir"]]
         \o TasksOf(Tail(results))

\* part_001:22-111: the call runs to its first await: the matches are taken
\* and every task has called mkdir
CallProcessImages ==
    /\ pc = "tasks"
    /\ probe.kind = "none"
    /\ \E html \in TaskBodies, before \in {{}, {Variant30}} :
         \E r \in {processImages(html, {ImagePath}, before)} :
         \E ts \in {TasksOf(r.results)} :
            probe' = [kind    |-> "running", html |-> html, before |-> before,
                      disk    |-> before,
                      tasks   |-> ts,
                      results |-> r.results,
                      toFile  |-> [p \in {ts[t].outPath : t \in 1..Len(ts)} |-> 0]]
    /\ UNCHANGED buildVars

\* part_001:70-90: the mkdir of task t resolves; the task looks for its file
\* and, when it is not there, calls toFile and awaits it
MkdirResolved ==
    /\ pc = "tasks"
    /\ probe.kind = "running"
    /\ \E t \in 1..Len(probe.tasks) :
         /\ probe.tasks[t].at = "mkdir"
         /\ \E outPath \in {probe.tasks[t].outPath} :
              probe' = IF outPath \notin probe.disk
                       THEN [probe EXCEPT !.tasks[t].at = "toFile",
                                          !.toFile[outPath] = @ + 1]
                       ELSE [probe EXCEPT !.tasks[t].at = "done"]
    /\ UNCHANGED buildVars

\* part_001:88-94: the toFile of task t resolves: the file is on disk
ToFileResolved ==
    /\ pc = "tasks"
    /\ probe.kind = "running"
    /\ \E t \in 1..Len(probe.tasks) :
         /\ probe.tasks[t].at = "toFile"
         /\ probe' = [probe EXCEPT !.tasks[t].at = "done",
                                   !.disk = @ \cup {probe.tasks[t].outPath}]
    /\ UNCHANGED buildVars

\* part_001:111-118: every task is done; the elements are replaced
ReturnHtml ==
    /\ pc = "tasks"
    /\ probe.kind = "running"
    /\ \A t \in 1..Len(probe.tasks) : probe.tasks[t].at = "done"
    /\ probe' = [probe EXCEPT !.kind = "returned",
                              !.html = ReplaceAll(probe.html, probe.results)]
    /\ UNCHANGED buildVars

InitTasks ==
    /\ pc = "tasks"
    /\ project = NoProject
    /\ FreshState
    /\ worker = NoWorker
    /\ probe = NoProbe

NextTasks ==
    \/ CallProcessImages
    \/ MkdirResolved
    \/ ToFileResolved
    \/ ReturnHtml

SpecTasks == InitTasks /\ [][NextTasks]_vars

\* C13: within one processImages call each derived output file is written
\* at most once and a file that is there before the call is never written,
\* also when two matched elements name the same source image with the same
\* requested size.
C13_EachPathWrittenAtMostOnce ==
    probe.kind \in {"running", "returned"} =>
       \A p \in DOMAIN probe.toFile :
          /\ probe.toFile[p] <= 1
          /\ p \in probe.before => probe.toFile[p] = 0

\* the part of C13 the code keeps: a file there before the call is left alone
C13_ExistingNeverWritten ==
    probe.kind \in {"running", "returned"} =>
       \A p \in DOMAIN probe.toFile :
          p \in probe.before => probe.toFile[p] = 0

\* two tasks have called toFile for the same path and both are in flight
C13_TwoWritersInFlight ==
    ~(/\ probe.kind = "running"
      /\ \E t, u \in 1..Len(probe.tasks) :
           /\ t # u
           /\ probe.tasks[t].outPath = probe.tasks[u].outPath
           /\ probe.tasks[t].at = "toFile"
           /\ probe.tasks[u].at = "toFile")

=============================================================================
